---- MODULE Spec2Model ----
(***************************************************************************)
(* Checkout backend of theveer19/ecommerce-backend.                        *)
(*                                                                         *)
(* The repository holds seven iterations of one Express server.  Each is a *)
(* program of its own; the model picks one in Init and keeps it:           *)
(*   "idx1"  src/index.js lines 1-710     (anon key, validateOrderData)    *)
(*   "idx2"  src/index.js lines 711-1048  (second variant, items column)   *)
(*   "idx3"  src/index.js lines 1049-1319 (service-role variant)           *)
(*   "p000"  src/unnamed/part_000         (create-order only)              *)
(*   "p001"  src/unnamed/part_001         (items column, no signature)     *)
(*   "p002"  src/unnamed/part_002         (order_items, no rollback)       *)
(*   "p003"  src/unnamed/part_003         (raw inserts)                    *)
(*                                                                         *)
(* A handler runs atomically from one await to the next (Node runs one     *)
(* callback at a time), so there is one action per awaited remote call:    *)
(* the call takes effect on the store and the handler runs on to its next  *)
(* await or to its response.  A remote call ends in one of three ways:     *)
(* "ok", "error" (the client resolves to {error}) or "throw" (the promise  *)
(* rejects).  A call that does not end "ok" leaves the store unchanged.    *)
(***************************************************************************)
EXTENDS Integers, Sequences, FiniteSets, TLC

\* ------------------------------------------------------------------ bounds
NumReq == 2        \* requests in flight in one behaviour
MaxItems == 2      \* line items in one save-order payload
MaxClock == 1      \* milliseconds the clock advances in one behaviour

Requests == 1..NumReq

Variants == {"idx1", "idx2", "idx3", "p000", "p001", "p002", "p003"}

Outcomes == {"ok", "error", "throw"}

\* ----------------------------------------------------------- JS values
\* An absent (undefined) string field.  The handlers test such fields only
\* with ! and ||, under which undefined and "" behave alike.
Absent == ""
NULL == "NULL"

\* x || null
OrNull(x) == IF x = Absent THEN NULL ELSE x

\* Numbers are exact decimals with three places: the JS number x is its
\* floor i and the thousandths f above it, x = i + f / Scale.  NaN is its
\* own value.
Scale == 10 * 100
NaN == [nan |-> TRUE, i |-> 0, f |-> 0]
Num(i, f) == [nan |-> FALSE, i |-> i, f |-> f]

\* A JSON value met where a number is expected:
\*   undefined, null, number, or a string that is numeric ("12.5"),
\*   numeric with a tail ("12abc"), not numeric ("abc") or empty ("").
\* val is the number, or the number the string reads as.
JsKinds == {"undefined", "null", "number", "numstr", "prefixstr", "alpha", "empty"}
Js(k, x) == [kind |-> k, val |-> x]

\* !a  (the string "0" is truthy)
Falsy(a) == \/ a.kind \in {"undefined", "null", "empty"}
            \/ a.kind = "number" /\ a.val = Num(0, 0)

\* Number(a), the coercion behind isNaN(a), a < n and a * n
ToNumber(a) ==
  CASE a.kind \in {"number", "numstr"} -> a.val
    [] a.kind \in {"null", "empty"} -> Num(0, 0)
    [] OTHER -> NaN

\* parseFloat(a)
ParseFloat(a) ==
  CASE a.kind \in {"number", "numstr", "prefixstr"} -> a.val
    [] OTHER -> NaN

\* isNaN(a)
IsNaN(a) == ToNumber(a).nan

\* x < n, x <= n, x > n for an integer n (NaN compares false)
Lt(x, n) == ~x.nan /\ x.i < n
Le(x, n) == ~x.nan /\ (x.i < n \/ (x.i = n /\ x.f = 0))
Gt(x, n) == ~x.nan /\ ~Le(x, n)

\* Math.round(x): the nearest integer, halves upwards
MathRound(x) ==
  IF x.nan THEN NaN
  ELSE IF 2 * x.f >= Scale THEN Num(x.i + 1, 0) ELSE Num(x.i, 0)

\* parseInt(a): the integer that a number, or the numeric head of a string,
\* reads as, cut towards zero
ParseInt(a) ==
  IF a.kind \in {"number", "numstr", "prefixstr"} /\ ~a.val.nan
  THEN IF a.val.i < 0 /\ a.val.f > 0 THEN Num(a.val.i + 1, 0) ELSE Num(a.val.i, 0)
  ELSE NaN

\* x * n for an integer n >= 0
Times(x, n) ==
  IF x.nan THEN NaN
  ELSE Num(x.i * n + (x.f * n) \div Scale, (x.f * n) % Scale)

\* -------------------------------------------------- save-order payloads
ShippingFields ==
  {"firstName", "lastName", "email", "phone", "address", "city", "state", "zipCode"}

\* items: "absent", "notarray" or "array" with its elements
One == Js("number", Num(1, 0))
Item(q) == [id |-> "prod", quantity |-> q]
ItemsArray(n) == [kind |-> "array", list |-> [i \in 1..n |-> Item(One)]]
ItemsOther(k) == [kind |-> k, list |-> <<>>]

\* shipping_info: present or not, the fields that carry a value, saveAddress
Shipping(p, fs, sa) == [present |-> p, fields |-> fs, saveAddress |-> sa]

SaveBody(u, it, ta, pm, pid, gw, gpid, sh, st) ==
  [user_id |-> u, items |-> it, total_amount |-> ta, payment_method |-> pm,
   payment_id |-> pid,
   payment_details |-> [razorpay_order_id |-> gw, razorpay_payment_id |-> gpid],
   shipping_info |-> sh, status |-> st]

\* ------------------------------------------------------------------ state
VARIABLES
  variant,         \* which iteration of the server is running
  webhookSecret,   \* process.env.RAZORPAY_WEBHOOK_SECRET, Absent when not set
  server,          \* "configured": running with RAZORPAY_KEY_ID and _SECRET;
                   \* "unconfigured": running without one of them;
                   \* "down": the process ended at startup
  orders,          \* table orders: set of rows
  order_items,     \* table order_items: set of rows
  user_addresses,  \* table user_addresses: user ids with a saved address
  nextId,          \* next identifier the store assigns to an orders row
  gateway,         \* the order-create calls made to the payment gateway
  clock,           \* Date.now(), in milliseconds since the server started
  req              \* per request: kind, body, pc, order, resp, calls

vars == <<variant, webhookSecret, server, orders, order_items, user_addresses, nextId, gateway, clock, req>>

NoResp == [status |-> 0, error |-> "", fields |-> {}]
Resp(s, e) == [status |-> s, error |-> e, fields |-> {}]
RespFields(s, e, fs) == [status |-> s, error |-> e, fields |-> fs]

Idle == [kind |-> "none", body |-> <<>>, pc |-> "idle", order |-> 0,
         resp |-> NoResp, calls |-> <<>>]

\* a remote call as the request's log keeps it: the operation, how it
\* ended, and the number of rows it wrote (inserted, updated or deleted)
Call(op, res, n) == [op |-> op, res |-> res, wrote |-> n]

\* the handler of request r responds and ends
Finish(r, op, res, n, resp) ==
  req' = [req EXCEPT ![r].pc = "done", ![r].resp = resp,
                     ![r].calls = Append(@, Call(op, res, n))]

\* the handler of request r goes on to await its next call
Await(r, op, res, n, pc) ==
  req' = [req EXCEPT ![r].pc = pc, ![r].calls = Append(@, Call(op, res, n))]


\* ------------------------------------------------- save-order, validation
\* !items || !Array.isArray(items) || items.length === 0
ItemsInvalid(b) == b.items.kind # "array" \/ Len(b.items.list) = 0

\* requiredShippingFields.filter(field => !data.shipping_info[field])
MissingShipping(b) == ShippingFields \ b.shipping_info.fields

\* validateOrderData: every violation found, not the first one only
ValidateOrderData(b) ==
  (IF ItemsInvalid(b) THEN {"items"} ELSE {})
  \cup (IF \/ Falsy(b.total_amount) \/ IsNaN(b.total_amount)
           \/ Le(ToNumber(b.total_amount), 0)
        THEN {"total_amount"} ELSE {})
  \cup (IF ~b.shipping_info.present THEN {"shipping_info"} ELSE MissingShipping(b))

\* The response of the checks a handler makes before its first remote call,
\* NoResp when the payload passes them.
SaveValidation(v, b) ==
  CASE v = "idx1" ->
         IF ValidateOrderData(b) # {}
         THEN RespFields(400, "validation", ValidateOrderData(b)) ELSE NoResp
    [] v = "idx2" ->
         IF ItemsInvalid(b) THEN RespFields(400, "validation", {"items"})
         ELSE IF b.total_amount.kind \in {"undefined", "null"}
         THEN RespFields(400, "validation", {"total_amount"}) ELSE NoResp
    [] v = "idx3" ->
         IF ItemsInvalid(b) THEN RespFields(400, "validation", {"items"})
         ELSE IF \/ ~b.shipping_info.present
                 \/ {"firstName", "phone", "address"} \ b.shipping_info.fields # {}
         THEN RespFields(400, "validation", {}) ELSE NoResp
    [] v \in {"p001", "p002"} ->
         IF ItemsInvalid(b) THEN RespFields(400, "validation", {"items"})
         ELSE IF Falsy(b.total_amount) \/ Le(ToNumber(b.total_amount), 0)
         THEN RespFields(400, "validation", {"total_amount"}) ELSE NoResp
    [] OTHER -> NoResp

\* ------------------------------------------------------ save-order, rows
\* status: payment_method === 'cod' ? 'pending' : 'confirmed'
StatusByMethod(pm) == IF pm = "cod" THEN "pending" ELSE "confirmed"

\* order_number is computed by the store (idx1, idx3) or from the clock
\* (p001, p002); it never has the form of a gateway identifier
Row(id, u, pm, pid, gw, st) ==
  [id |-> id, order_number |-> "ORD" \o ToString(id), user_id |-> u,
   payment_method |-> pm, payment_id |-> pid, razorpay_order_id |-> gw,
   status |-> st]

\* the orders row a handler inserts, with the identifier the store assigns
OrderRow(v, b, id) ==
  CASE v = "idx1" ->
         Row(id, OrNull(b.user_id), OrNull(b.payment_method), OrNull(b.payment_id),
             NULL, StatusByMethod(b.payment_method))
    [] v = "idx2" ->
         Row(id, OrNull(b.user_id), OrNull(b.payment_method), OrNull(b.payment_id),
             NULL, IF b.status = Absent THEN "confirmed" ELSE b.status)
    [] v = "idx3" ->
         Row(id, OrNull(b.user_id), OrNull(b.payment_method),
             IF b.payment_method = "razorpay"
             THEN OrNull(b.payment_details.razorpay_payment_id) ELSE NULL,
             IF b.payment_method = "razorpay"
             THEN OrNull(b.payment_details.razorpay_order_id) ELSE NULL,
             StatusByMethod(b.payment_method))
    [] v = "p001" ->
         Row(id, OrNull(b.user_id),
             IF b.payment_method = Absent THEN "razorpay" ELSE b.payment_method,
             OrNull(b.payment_id), NULL,
             StatusByMethod(IF b.payment_method = Absent THEN "razorpay"
                            ELSE b.payment_method))
    [] v = "p002" ->
         Row(id, OrNull(b.user_id), OrNull(b.payment_method), OrNull(b.payment_id),
             NULL, StatusByMethod(b.payment_method))
    [] OTHER ->
         Row(id, OrNull(b.user_id), OrNull(b.payment_method), OrNull(b.payment_id),
             NULL, OrNull(b.status))

\* the quantity stored for an item:
\*   idx1, idx3  parseInt(item.quantity) || 1
\*   p002        item.quantity || 1
StoredQuantity(v, q) ==
  IF v = "p002" THEN (IF Falsy(q) THEN One ELSE q)
  ELSE IF ParseInt(q).nan \/ ParseInt(q) = Num(0, 0) THEN One
  ELSE Js("number", ParseInt(q))

\* the order_items rows of one payload, bound to the order just inserted
OrderItems(v, order_id, b) ==
  {[order_id |-> order_id, line |-> i, product_id |-> b.items.list[i].id,
    quantity |-> StoredQuantity(v, b.items.list[i].quantity)] :
     i \in 1..Len(b.items.list)}

\* variants that write order_items, and those that delete the order when
\* that write returns an error
WritesItems(v) == v \in {"idx1", "idx3", "p002"}
HasRollback(v) == v \in {"idx1", "idx3"}

\* the delete without a filter
RollbackMatchesAll(row, order_id) == TRUE

\* the delete with .lte in place of .eq
RollbackMatchesUpTo(row, order_id) == row.id <= order_id

\* .delete().eq('id', order.id)
RollbackMatches(row, order_id) == row.id = order_id


\* --------------------------------------------------- save-order, handler
FullShipping(sa) == Shipping(TRUE, ShippingFields, sa)
Total == Js("number", Num(998, 0))

\* the payloads of the concurrent runs: cash on delivery carrying payment
\* identifiers and a status, a gateway payment, a gateway payment without
\* payment_id, and a payload with no items
SaveBodies ==
  { SaveBody("u1", ItemsArray(1), Total, "cod", "pay1", "ord1", "pay1",
             FullShipping(FALSE), "shipped"),
    SaveBody("u1", ItemsArray(MaxItems), Total, "razorpay", "pay1", "ord1", "pay1",
             FullShipping(TRUE), Absent),
    SaveBody("u1", ItemsArray(1), Total, "razorpay", Absent, "ord1", Absent,
             FullShipping(FALSE), Absent),
    SaveBody("u1", ItemsArray(0), Total, "cod", Absent, Absent, Absent,
             FullShipping(FALSE), Absent) }

HasSaveOrder(v) == v # "p000"

\* requests are numbered in their order of arrival
MayArrive(r) == /\ server # "down"
                /\ req[r].pc = "idle"
                /\ \A q \in Requests : q < r => req[q].pc # "idle"

\* the first remote call of a save-order handler
FirstSaveCall(v) == IF v = "idx1" THEN "conn" ELSE "order"

\* A request arrives; the handler validates the payload and either answers
\* 400 or issues its first remote call.
StartSave(r, b) ==
  IF SaveValidation(variant, b) # NoResp
  THEN req' = [req EXCEPT ![r] = [Idle EXCEPT !.kind = "save", !.body = b,
                 !.pc = "done", !.resp = SaveValidation(variant, b)]]
  ELSE req' = [req EXCEPT ![r] = [Idle EXCEPT !.kind = "save", !.body = b,
                 !.pc = FirstSaveCall(variant)]]

SaveOrder(r) ==
  /\ MayArrive(r)
  /\ HasSaveOrder(variant)
  /\ \E b \in SaveBodies : StartSave(r, b)
  /\ UNCHANGED <<variant, webhookSecret, server, clock, orders, order_items, user_addresses, nextId, gateway>>

\* idx1: select count on orders before anything is written
ConnectionTest(r) ==
  /\ req[r].kind = "save" /\ req[r].pc = "conn"
  /\ \E res \in Outcomes :
       IF res = "ok" THEN Await(r, "orders.select", res, 0, "order")
       ELSE Finish(r, "orders.select", res, 0, Resp(500, "connection"))
  /\ UNCHANGED <<variant, webhookSecret, server, clock, orders, order_items, user_addresses, nextId, gateway>>

\* the handler without its check of orderError
AfterOrderInsertUnchecked(v, res) == IF WritesItems(v) THEN "items" ELSE "done"

\* where a handler goes once the orders insert has returned
AfterOrderInsert(v, res) ==
  IF res = "ok" /\ WritesItems(v) THEN "items" ELSE "done"

\* the answer of a handler that ends on the orders insert; p003 reads
\* data[0] of an insert made without .select(), which is the row or a
\* TypeError depending on the client library
OrderInsertResponses(v, res) ==
  IF res # "ok" THEN {Resp(500, "order_insert")}
  ELSE IF v = "p003" THEN {Resp(200, ""), Resp(500, "handler")}
  ELSE {Resp(200, "")}

InsertOrder(r) ==
  /\ req[r].kind = "save" /\ req[r].pc = "order"
  /\ \E res \in Outcomes :
       /\ IF res = "ok"
          THEN /\ orders' = orders \cup {OrderRow(variant, req[r].body, nextId)}
               /\ nextId' = nextId + 1
          ELSE UNCHANGED <<orders, nextId>>
       /\ IF AfterOrderInsert(variant, res) = "done"
          THEN \E resp \in OrderInsertResponses(variant, res) :
                 req' = [req EXCEPT ![r].pc = "done", ![r].resp = resp,
                           ![r].order = IF res = "ok" THEN nextId ELSE 0,
                           ![r].calls = Append(@, Call("orders.insert", res,
                                                      IF res = "ok" THEN 1 ELSE 0))]
          ELSE req' = [req EXCEPT ![r].pc = AfterOrderInsert(variant, res),
                           ![r].order = nextId,
                           ![r].calls = Append(@, Call("orders.insert", res,
                                                      IF res = "ok" THEN 1 ELSE 0))]
  /\ UNCHANGED <<variant, webhookSecret, server, clock, order_items, user_addresses, gateway>>

\* a handler that keeps the inserted order in a variable all requests share:
\* the order it reads is the one inserted last
SharedOrderId(r) == nextId - 1

\* order.id, a constant local to the handler's invocation: the id of the row
\* its own orders insert returned
OrderIdOf(r) == req[r].order

\* where a handler goes once the order_items insert has returned: the
\* rollback when it resolved to an error, the catch block when it threw
AfterItemsInsert(v, res, b) ==
  CASE res = "ok" ->
         IF v = "idx1" /\ b.shipping_info.saveAddress /\ b.user_id # Absent
         THEN "address" ELSE "done"
    [] res = "error" -> IF HasRollback(v) THEN "rollback" ELSE "done"
    [] OTHER -> "done"

InsertItems(r) ==
  /\ req[r].kind = "save" /\ req[r].pc = "items"
  /\ \E res \in Outcomes :
       /\ order_items' = IF res = "ok"
                         THEN order_items \cup OrderItems(variant, OrderIdOf(r), req[r].body)
                         ELSE order_items
       /\ IF AfterItemsInsert(variant, res, req[r].body) = "done"
          THEN Finish(r, "order_items.insert", res,
                      Cardinality(order_items' \ order_items),
                      IF res = "ok" THEN Resp(200, "") ELSE Resp(500, "items_insert"))
          ELSE Await(r, "order_items.insert", res,
                     Cardinality(order_items' \ order_items),
                     AfterItemsInsert(variant, res, req[r].body))
  /\ UNCHANGED <<variant, webhookSecret, server, clock, orders, user_addresses, nextId, gateway>>

\* the answer after the compensating delete: the awaited delete's result is
\* not read, so an {error} goes unnoticed; a rejection reaches the catch
\* block and its message is the one sent
\* a rollback that ends without an answer
RollbackNoResponse(res) == NoResp

RollbackResponse(res) ==
  IF res = "throw" THEN Resp(500, "rollback_delete") ELSE Resp(500, "items_insert")

Rollback(r) ==
  /\ req[r].kind = "save" /\ req[r].pc = "rollback"
  /\ \E res \in Outcomes :
       /\ orders' = IF res = "ok"
                    THEN {o \in orders : ~RollbackMatches(o, req[r].order)}
                    ELSE orders
       /\ Finish(r, "orders.delete", res, Cardinality(orders \ orders'),
                 RollbackResponse(res))
  /\ UNCHANGED <<variant, webhookSecret, server, clock, order_items, user_addresses, nextId, gateway>>

\* idx1: the address insert sits in its own try/catch and its result is
\* not read; the order answer is 200 whatever happens to it
SaveAddress(r) ==
  /\ req[r].kind = "save" /\ req[r].pc = "address"
  /\ \E res \in Outcomes :
       /\ user_addresses' = IF res = "ok"
                            THEN user_addresses \cup {req[r].body.user_id}
                            ELSE user_addresses
       /\ Finish(r, "user_addresses.insert", res,
                 IF res = "ok" THEN 1 ELSE 0, Resp(200, ""))
  /\ UNCHANGED <<variant, webhookSecret, server, clock, orders, order_items, nextId, gateway>>

\* ------------------------------------------------------- verify-payment
\* RAZORPAY_KEY_SECRET of a configured server
KeySecret == "key_secret"

\* crypto.createHmac('sha256', key).update(msg).digest('hex'): the digest is
\* a function of key and message that differs when either differs
Hmac(key, msg) == "hmac(" \o key \o "," \o msg \o ")"

VerifyBody(oid, pid, sig) ==
  [razorpay_order_id |-> oid, razorpay_payment_id |-> pid, razorpay_signature |-> sig]

\* razorpay_order_id + "|" + razorpay_payment_id, signed with the key secret
ExpectedSignature(b) ==
  Hmac(KeySecret, b.razorpay_order_id \o "|" \o b.razorpay_payment_id)

\* a correct signature, one made with another key, one made for another
\* payment, one with a changed character, absent fields, and a correct
\* signature for an order id that is a stored payment id
VerifyBodies ==
  { VerifyBody("ord1", "pay1", Hmac(KeySecret, "ord1|pay1")),
    VerifyBody("ord1", "pay2", Hmac(KeySecret, "ord1|pay2")),
    VerifyBody("ord1", "pay1", Hmac("other_secret", "ord1|pay1")),
    VerifyBody("ord1", "pay2", Hmac(KeySecret, "ord1|pay1")),
    VerifyBody("ord1", "pay1", Hmac(KeySecret, "ord1|pay1") \o "0"),
    VerifyBody("ord1", "pay1", Absent),
    VerifyBody(Absent, "pay1", Hmac(KeySecret, "|pay1")),
    VerifyBody("pay1", "pay2", Hmac(KeySecret, "pay1|pay2")) }

HasVerifyPayment(v) == v \in {"idx1", "idx2", "idx3", "p001", "p002"}

\* !razorpay_order_id || !razorpay_payment_id || !razorpay_signature
VerifyMissing(b) ==
  \/ b.razorpay_order_id = Absent
  \/ b.razorpay_payment_id = Absent
  \/ b.razorpay_signature = Absent

\* expectedSignature === razorpay_signature; p001 acknowledges every request
SignatureAccepted(v, b) ==
  IF v = "p001" THEN TRUE ELSE ExpectedSignature(b) = b.razorpay_signature

\* variants whose handler updates the order after a verified signature
UpdatesOrder(v) == v \in {"idx1", "idx3"}

\* the rows the update selects:
\*   idx1  .eq('payment_id', id).or('payment_id.eq.id,order_number.eq.id')
\*   idx3  .eq('razorpay_order_id', id)
UpdateMatches(v, o, oid) ==
  IF v = "idx1"
  THEN o.payment_id = oid /\ (o.payment_id = oid \/ o.order_number = oid)
  ELSE o.razorpay_order_id = oid

\* .update({status: 'confirmed', payment_id: razorpay_payment_id})
Confirmed(o, pid) == [o EXCEPT !.status = "confirmed", !.payment_id = pid]

StartVerify(r, b) ==
  LET arrive(pc, resp) ==
        req' = [req EXCEPT ![r] = [Idle EXCEPT !.kind = "verify", !.body = b,
                                      !.pc = pc, !.resp = resp]]
  IN IF VerifyMissing(b) THEN arrive("done", Resp(400, "missing"))
     ELSE IF ~SignatureAccepted(variant, b)
     THEN arrive("done", Resp(400, "invalid_signature"))
     ELSE IF UpdatesOrder(variant) THEN arrive("update", NoResp)
     ELSE arrive("done", Resp(200, ""))

VerifyPayment(r) ==
  /\ MayArrive(r)
  /\ HasVerifyPayment(variant)
  /\ \E b \in VerifyBodies : StartVerify(r, b)
  /\ UNCHANGED <<variant, webhookSecret, server, clock, orders, order_items, user_addresses, nextId, gateway>>

\* the answer once the update has returned: idx1 wraps the call in a
\* try/catch of its own and never reads its result; idx3 reads and logs
\* {error}, and a rejection reaches the handler's catch block
UpdateResponse(v, res) ==
  IF v = "idx3" /\ res = "throw" THEN Resp(500, "update") ELSE Resp(200, "")

UpdateOrder(r) ==
  /\ req[r].kind = "verify" /\ req[r].pc = "update"
  /\ \E res \in Outcomes :
       /\ orders' =
            IF res = "ok"
            THEN {IF UpdateMatches(variant, o, req[r].body.razorpay_order_id)
                  THEN Confirmed(o, req[r].body.razorpay_payment_id) ELSE o
                  : o \in orders}
            ELSE orders
       /\ Finish(r, "orders.update", res,
                 IF res = "ok"
                 THEN Cardinality({o \in orders :
                        UpdateMatches(variant, o, req[r].body.razorpay_order_id)})
                 ELSE 0,
                 UpdateResponse(variant, res))
  /\ UNCHANGED <<variant, webhookSecret, server, clock, order_items, user_addresses, nextId, gateway>>

\* ---------------------------------------------------------- create-order
MAX_PAISA == 10000000

Reject(e) == [ok |-> FALSE, error |-> e, amount |-> NaN]
Accept(x) == [ok |-> TRUE, error |-> "", amount |-> x]

\* What a handler makes of req.body.amount: a 400, or the amount it hands
\* to razorpay.orders.create.
\*   idx1, idx3  !amount || isNaN(amount) || amount < 1;
\*               Math.round(parseFloat(amount) * 100)
\*   idx2        undefined/null; strings through parseFloat; isNaN or <= 0;
\*               Math.round(amount * 100); more than MAX_PAISA
\*   p000        !amount || typeof amount !== 'number' || amount <= 0;
\*               Math.round(amount); more than 10000000
\*   p001, p002  !amount || isNaN(amount) || amount <= 0;
\*               Math.round(Number(amount) * 100)
\*   p003        amount * 100, unchecked
NormalizeAmount(v, a) ==
  CASE v \in {"idx1", "idx3"} ->
         IF Falsy(a) \/ IsNaN(a) \/ Lt(ToNumber(a), 1) THEN Reject("invalid")
         ELSE Accept(MathRound(Times(ParseFloat(a), 100)))
    [] v = "idx2" ->
         LET x == IF a.kind = "number" THEN a.val ELSE ParseFloat(a)
         IN IF a.kind \in {"undefined", "null"} THEN Reject("missing")
            ELSE IF x.nan \/ Le(x, 0) THEN Reject("invalid")
            ELSE IF Gt(MathRound(Times(x, 100)), MAX_PAISA) THEN Reject("maximum")
            ELSE Accept(MathRound(Times(x, 100)))
    [] v = "p000" ->
         IF Falsy(a) \/ a.kind # "number" \/ Le(a.val, 0) THEN Reject("invalid")
         ELSE IF Gt(MathRound(a.val), MAX_PAISA) THEN Reject("maximum")
         ELSE Accept(MathRound(a.val))
    [] v \in {"p001", "p002"} ->
         IF Falsy(a) \/ IsNaN(a) \/ Le(ToNumber(a), 0) THEN Reject("invalid")
         ELSE Accept(MathRound(Times(ToNumber(a), 100)))
    [] OTHER -> Accept(Times(ToNumber(a), 100))

\* the amounts tried: 0.5, 1, 1.004, 1.006, 1.5, 499.99, 100000,
\* 100000.01, 0 and -5.  No amount lies on a half paisa, where the binary
\* product a * 100 may fall on either side.
AmountValues ==
  {Num(0, 500), Num(1, 0), Num(1, 4), Num(1, 6), Num(1, 500), Num(499, 990),
   Num(100000, 0), Num(100000, 10), Num(0, 0), Num(-5, 0)}

Amounts ==
  {Js(k, x) : k \in {"number", "numstr", "prefixstr"}, x \in AmountValues}
  \cup {Js(k, NaN) : k \in {"undefined", "null", "alpha", "empty"}}

\* how razorpay.orders.create ends: an order, a rejection the gateway
\* classes as BAD_REQUEST_ERROR, another gateway error, a network failure
GatewayOutcomes == {"ok", "bad_request", "gateway_error", "network"}

\* without credentials the gateway creates no order
GatewayOutcomesOf(s) ==
  IF s = "configured" THEN GatewayOutcomes ELSE GatewayOutcomes \ {"ok"}

\* the values Math.random().toString(36).substr(2, 9) may take; nothing
\* keeps two draws apart
RandomSuffixes == {"k3j9x0a1b", "p0q2m7c4d"}

\* options.receipt: the clock reading, followed in idx1 and idx3 by a
\* random suffix
Receipt(v, now, rnd) ==
  IF v \in {"idx1", "idx3"}
  THEN "receipt_" \o ToString(now) \o "_" \o rnd
  ELSE "receipt_" \o ToString(now)

\* variants whose handler reads the two environment variables itself:
\* !process.env.RAZORPAY_KEY_ID || !process.env.RAZORPAY_KEY_SECRET
ChecksCredentials(v) == v \in {"p001", "p002"}

StartCreate(r, a, rnd) ==
  LET n == NormalizeAmount(variant, a)
  IN IF n.ok /\ ChecksCredentials(variant) /\ server = "unconfigured"
     THEN /\ req' = [req EXCEPT ![r] = [Idle EXCEPT !.kind = "create",
                       !.body = [amount |-> a], !.pc = "done",
                       !.resp = Resp(500, "config")]]
          /\ UNCHANGED gateway
     ELSE IF n.ok
     THEN /\ req' = [req EXCEPT ![r] = [Idle EXCEPT !.kind = "create",
                       !.body = [amount |-> a], !.pc = "gateway"]]
          /\ gateway' = gateway \cup
               {[req |-> r, amount |-> n.amount, currency |-> "INR",
                 receipt |-> Receipt(variant, clock, rnd)]}
     ELSE /\ req' = [req EXCEPT ![r] = [Idle EXCEPT !.kind = "create",
                       !.body = [amount |-> a], !.pc = "done",
                       !.resp = Resp(400, n.error)]]
          /\ UNCHANGED gateway

CreateOrder(r) ==
  /\ MayArrive(r)
  /\ \E a \in Amounts, rnd \in RandomSuffixes : StartCreate(r, a, rnd)
  /\ UNCHANGED <<variant, webhookSecret, server, clock, orders, order_items, user_addresses, nextId>>

\* only idx1 turns a BAD_REQUEST_ERROR of the gateway into a 400
GatewayResponse(v, res) ==
  CASE res = "ok" -> Resp(200, "")
    [] res = "bad_request" /\ v = "idx1" -> Resp(400, "gateway")
    [] OTHER -> Resp(500, "gateway")

\* the identifier the gateway gives the order it creates for request r
GatewayOrderId(r) == "ord" \o ToString(r)

\* a handler that calls the gateway again after a network failure
AfterGatewayRetry(v, res) == IF res = "network" THEN "gateway" ELSE "done"

\* where a handler goes once razorpay.orders.create has returned: to its
\* answer, whatever the outcome
AfterGateway(v, res) == "done"

GatewayReturns(r) ==
  /\ req[r].kind = "create" /\ req[r].pc = "gateway"
  /\ \E res \in GatewayOutcomesOf(server) :
       IF AfterGateway(variant, res) = "done"
       THEN Finish(r, "razorpay.orders.create", res, 0, GatewayResponse(variant, res))
       ELSE Await(r, "razorpay.orders.create", res, 0, AfterGateway(variant, res))
  /\ UNCHANGED <<variant, webhookSecret, server, clock, orders, order_items, user_addresses, nextId, gateway>>

\* ------------------------------------------------------- webhook
\* only the first server of index.js registers /webhook/razorpay
HasWebhook(v) == v = "idx1"

\* the value of RAZORPAY_WEBHOOK_SECRET when it is set
WebhookSecretValue == "webhook_secret"

\* A webhook request: the JSON document sent (its event, what its payload
\* holds, the payment entity's id and order_id, and whether the text sent
\* has white space between its tokens) and the x-razorpay-signature header.
\* payload is "absent", "empty" ({}), "payment" (payload.payment.entity) or
\* "full" (payload.payment.entity and payload.order.entity).
WebhookBody(ev, pl, pid, oid, sp, sig) ==
  [event |-> ev, payload |-> pl, pid |-> pid, oid |-> oid, spaced |-> sp,
   signature |-> sig]

\* JSON.stringify of a document: its members, no white space
Stringify(d) ==
  "{" \o d.event \o "," \o d.payload \o "," \o d.pid \o "," \o d.oid \o "}"

\* the text of the request as it was sent
RawText(b) ==
  IF b.spaced
  THEN "{ " \o b.event \o ", " \o b.payload \o ", " \o b.pid \o ", " \o b.oid \o " }"
  ELSE Stringify(b)

\* express.json(): req.body is the document; the text is not kept
Parse(b) == [event |-> b.event, payload |-> b.payload, pid |-> b.pid, oid |-> b.oid]

\* expectedSignature: the digest of JSON.stringify(req.body)
ExpectedWebhookSignature(b) == Hmac(webhookSecret, Stringify(Parse(b)))

\* the switch on event: "update" when the handler goes on to update orders,
\* "throw" when reading the payload raises a TypeError, "skip" otherwise
WebhookDispatch(b) ==
  CASE b.event \in {"payment.captured", "payment.failed"} ->
         IF b.payload = "absent" THEN "throw"
         ELSE IF b.payload \in {"payment", "full"} THEN "update" ELSE "skip"
    [] b.event = "order.paid" -> IF b.payload = "full" THEN "skip" ELSE "throw"
    [] OTHER -> "skip"

\* the documents tried, each with the signature the gateway makes (over the
\* text sent), the digest of the re-serialised document, a digest under the
\* key secret, and no signature
WebhookDocs ==
  {WebhookBody(ev, "full", "pay1", "ord1", sp, Absent) :
     ev \in {"payment.captured", "payment.failed", "order.paid", "refund.created"},
     sp \in BOOLEAN}
  \cup {WebhookBody("payment.captured", pl, "pay1", "ord1", FALSE, Absent) :
          pl \in {"absent", "empty", "payment"}}
  \cup {WebhookBody("order.paid", "payment", "pay1", "ord1", FALSE, Absent),
        WebhookBody("payment.failed", "payment", "pay2", "pay1", FALSE, Absent),
        WebhookBody("payment.captured", "payment", "pay2", "pay1", FALSE, Absent)}

WebhookSignatures(d) ==
  {Hmac(WebhookSecretValue, RawText(d)), Hmac(WebhookSecretValue, Stringify(Parse(d))),
   Hmac(KeySecret, RawText(d)), Absent}

WebhookBodies ==
  UNION {{[d EXCEPT !.signature = sig] : sig \in WebhookSignatures(d)} : d \in WebhookDocs}

StartWebhook(r, b) ==
  LET arrive(pc, resp) ==
        req' = [req EXCEPT ![r] = [Idle EXCEPT !.kind = "webhook", !.body = b,
                                      !.pc = pc, !.resp = resp]]
  IN IF webhookSecret = Absent THEN arrive("done", Resp(400, "not_configured"))
     ELSE IF b.signature # ExpectedWebhookSignature(b)
     THEN arrive("done", Resp(400, "invalid_signature"))
     ELSE CASE WebhookDispatch(b) = "update" -> arrive("hook_update", NoResp)
            [] WebhookDispatch(b) = "throw" -> arrive("done", Resp(500, "handler"))
            [] OTHER -> arrive("done", Resp(200, ""))

Webhook(r) ==
  /\ MayArrive(r)
  /\ HasWebhook(variant)
  /\ \E b \in WebhookBodies : StartWebhook(r, b)
  /\ UNCHANGED <<variant, webhookSecret, server, clock, orders, order_items, user_addresses, nextId, gateway>>

\* an update without its filter
WebhookMatchesAll(o, b) == TRUE

\* .eq('payment_id', payment.order_id)
WebhookMatches(o, b) == o.payment_id = b.oid

\* .update({status: 'confirmed' or 'failed', payment_id: payment.id})
WebhookUpdated(o, b) ==
  [o EXCEPT !.status = IF b.event = "payment.captured" THEN "confirmed" ELSE "failed",
            !.payment_id = b.pid]

\* the update's result is not read; a rejection reaches the catch block
WebhookUpdate(r) ==
  /\ req[r].kind = "webhook" /\ req[r].pc = "hook_update"
  /\ \E res \in Outcomes :
       /\ orders' =
            IF res = "ok"
            THEN {IF WebhookMatches(o, req[r].body)
                  THEN WebhookUpdated(o, req[r].body) ELSE o : o \in orders}
            ELSE orders
       /\ Finish(r, "orders.update", res,
                 IF res = "ok"
                 THEN Cardinality({o \in orders : WebhookMatches(o, req[r].body)})
                 ELSE 0,
                 IF res = "throw" THEN Resp(500, "update") ELSE Resp(200, ""))
  /\ UNCHANGED <<variant, webhookSecret, server, clock, order_items, user_addresses, nextId, gateway>>

\* ------------------------------------------------------- GET /orders
HasGetOrders(v) == v \in {"idx1", "idx3", "p001", "p002"}

\* variants whose select embeds order_items (...) in every row listed;
\* p001 selects "*" alone
JoinsItems(v) == v \in {"idx1", "idx3", "p002"}

\* .eq('user_id', user_id), which p001 and p002 apply only when user_id is given
Listed(u) == {o \in orders : u = Absent \/ o.user_id = u}

\* the rows of a listing whose embedded order_items array is empty, by id
ListedWithoutItems(v, u) ==
  IF JoinsItems(v)
  THEN {ToString(o.id) : o \in {p \in Listed(u) :
                                  ~\E it \in order_items : it.order_id = p.id}}
  ELSE {}

\* idx1 and idx3 refuse a query without user_id
StartList(r, u) ==
  IF variant \in {"idx1", "idx3"} /\ u = Absent
  THEN req' = [req EXCEPT ![r] = [Idle EXCEPT !.kind = "list",
                 !.body = [user_id |-> u, rows |-> {}], !.pc = "done",
                 !.resp = Resp(400, "user_id")]]
  ELSE req' = [req EXCEPT ![r] = [Idle EXCEPT !.kind = "list",
                 !.body = [user_id |-> u, rows |-> {}], !.pc = "list"]]

GetOrders(r) ==
  /\ MayArrive(r)
  /\ HasGetOrders(variant)
  /\ \E u \in {"u1", "u2", Absent} : StartList(r, u)
  /\ UNCHANGED <<variant, webhookSecret, server, clock, orders, order_items, user_addresses, nextId, gateway>>

\* The select returns.  body.rows holds the rows of the answer's data, and
\* the answer's field "fields" those of them that came with no order_items.
\* idx1 goes on to count the user's orders before it answers.
SelectOrders(r) ==
  /\ req[r].kind = "list" /\ req[r].pc = "list"
  /\ \E res \in Outcomes :
       IF res # "ok" THEN Finish(r, "orders.select", res, 0, Resp(500, "select"))
       ELSE req' = [req EXCEPT
                      ![r].pc = IF variant = "idx1" THEN "count" ELSE "done",
                      ![r].body.rows = Listed(req[r].body.user_id),
                      ![r].resp = RespFields(IF variant = "idx1" THEN 0 ELSE 200, "",
                                     ListedWithoutItems(variant, req[r].body.user_id)),
                      ![r].calls = Append(@, Call("orders.select", res, 0))]
  /\ UNCHANGED <<variant, webhookSecret, server, clock, orders, order_items, user_addresses, nextId, gateway>>

\* idx1: the count for the pagination; its error is not read
CountOrders(r) ==
  /\ req[r].kind = "list" /\ req[r].pc = "count"
  /\ \E res \in Outcomes :
       Finish(r, "orders.count", res, 0,
              IF res = "throw" THEN Resp(500, "count")
              ELSE RespFields(200, "", req[r].resp.fields))
  /\ UNCHANGED <<variant, webhookSecret, server, clock, orders, order_items, user_addresses, nextId, gateway>>

\* ------------------------------------------------------- clock
\* a millisecond passes
Tick ==
  /\ clock < MaxClock
  /\ clock' = clock + 1
  /\ UNCHANGED <<variant, webhookSecret, server, orders, order_items, user_addresses, nextId, gateway, req>>

\* ------------------------------------------------------- specification
Init ==
  /\ variant \in Variants
  /\ webhookSecret \in (IF HasWebhook(variant) THEN {Absent, WebhookSecretValue}
                        ELSE {Absent})
  /\ server = "configured"
  /\ orders = {}
  /\ order_items = {}
  /\ user_addresses = {}
  /\ nextId = 1
  /\ gateway = {}
  /\ clock = 0
  /\ req = [r \in Requests |-> Idle]

Next ==
  \E r \in Requests :
    \/ SaveOrder(r)
    \/ ConnectionTest(r)
    \/ InsertOrder(r)
    \/ InsertItems(r)
    \/ Rollback(r)
    \/ SaveAddress(r)
    \/ VerifyPayment(r)
    \/ UpdateOrder(r)

Spec == Init /\ [][Next]_vars

\* How a server started without RAZORPAY_KEY_ID or RAZORPAY_KEY_SECRET
\* may stand: idx2 ends the process when either is missing; every other
\* variant hands them to new Razorpay(...) at startup, which either throws,
\* ending the process, or returns a client.
Startups(v) ==
  IF v = "idx2" THEN {"configured", "down"}
  ELSE {"configured", "unconfigured", "down"}

InitConfig ==
  /\ variant \in Variants
  /\ webhookSecret = Absent
  /\ server \in Startups(variant)
  /\ orders = {}
  /\ order_items = {}
  /\ user_addresses = {}
  /\ nextId = 1
  /\ gateway = {}
  /\ clock = 0
  /\ req = [r \in Requests |-> Idle]

\* create-order alone: one request, over every amount of Amounts
NextCreate ==
  \/ CreateOrder(1)
  \/ GatewayReturns(1)

SpecCreate == Init /\ [][NextCreate]_vars

\* create-order on servers started with or without gateway credentials
SpecConfig == InitConfig /\ [][NextCreate]_vars

\* save-order alone: one request, over every payload of RichBodies
RichItems == {ItemsOther("absent"), ItemsOther("notarray"), ItemsArray(0), ItemsArray(1)}

RichTotals ==
  {Js("undefined", NaN), Js("alpha", NaN), Js("number", Num(0, 0)),
   Js("number", Num(-5, 0)), Total}

RichShipping ==
  {Shipping(FALSE, {}, FALSE)} \cup {Shipping(TRUE, fs, TRUE) : fs \in SUBSET ShippingFields}

RichBodies ==
  {SaveBody("u1", it, ta, "cod", Absent, Absent, Absent, sh, Absent) :
     it \in RichItems, ta \in RichTotals, sh \in RichShipping}

SaveOrderAny(r) ==
  /\ MayArrive(r)
  /\ HasSaveOrder(variant)
  /\ \E b \in RichBodies : StartSave(r, b)
  /\ UNCHANGED <<variant, webhookSecret, server, clock, orders, order_items, user_addresses, nextId, gateway>>

NextValidate ==
  \/ SaveOrderAny(1)
  \/ ConnectionTest(1)
  \/ InsertOrder(1)
  \/ InsertItems(1)
  \/ Rollback(1)
  \/ SaveAddress(1)

SpecValidate == Init /\ [][NextValidate]_vars

\* save-order alone: one request, one item, over every quantity of Quantities:
\* 1, 2, 0, -3, 2.5, "2", "3abc", "abc", null and none
Quantities ==
  {One, Js("number", Num(2, 0)), Js("number", Num(0, 0)), Js("number", Num(-3, 0)),
   Js("number", Num(2, 500)), Js("numstr", Num(2, 0)), Js("prefixstr", Num(3, 0)),
   Js("alpha", NaN), Js("null", NaN), Js("undefined", NaN)}

QuantityBodies ==
  {SaveBody("u1", [kind |-> "array", list |-> <<Item(q)>>], Total, "cod",
            Absent, Absent, Absent, FullShipping(FALSE), Absent) : q \in Quantities}

SaveOrderQuantity(r) ==
  /\ MayArrive(r)
  /\ HasSaveOrder(variant)
  /\ \E b \in QuantityBodies : StartSave(r, b)
  /\ UNCHANGED <<variant, webhookSecret, server, clock, orders, order_items, user_addresses, nextId, gateway>>

NextQuantity ==
  \/ SaveOrderQuantity(1)
  \/ ConnectionTest(1)
  \/ InsertOrder(1)
  \/ InsertItems(1)
  \/ Rollback(1)

SpecQuantity == Init /\ [][NextQuantity]_vars

\* the steps of the save-order handler
SaveOrderSteps(r) ==
  \/ SaveOrder(r)
  \/ ConnectionTest(r)
  \/ InsertOrder(r)
  \/ InsertItems(r)
  \/ Rollback(r)
  \/ SaveAddress(r)

\* save-order alone, every remote call a handler awaits returning or
\* throwing in the end
AwaitedCalls(r) ==
  \/ ConnectionTest(r)
  \/ InsertOrder(r)
  \/ InsertItems(r)
  \/ Rollback(r)
  \/ SaveAddress(r)

\* a payload the validation rejects and one that asks for its address to
\* be saved: between them they take every path of the handler
PathBodies == {b \in SaveBodies : ItemsInvalid(b) \/ b.shipping_info.saveAddress}

SaveOrderPaths(r) ==
  /\ MayArrive(r)
  /\ HasSaveOrder(variant)
  /\ \E b \in PathBodies : StartSave(r, b)
  /\ UNCHANGED <<variant, webhookSecret, server, clock, orders, order_items, user_addresses, nextId, gateway>>

NextSave == \E r \in Requests : SaveOrderPaths(r) \/ AwaitedCalls(r)

SpecSave ==
  Init /\ [][NextSave]_vars /\ \A r \in Requests : WF_vars(AwaitedCalls(r))

\* create-order under concurrency: a few amounts, requests that may share
\* a clock reading
ConcurrentAmounts ==
  {Js("number", Num(1, 0)), Js("numstr", Num(499, 990)), Js("number", Num(0, 0))}

CreateOrderConcurrent(r) ==
  /\ MayArrive(r)
  /\ \E a \in ConcurrentAmounts, rnd \in RandomSuffixes : StartCreate(r, a, rnd)
  /\ UNCHANGED <<variant, webhookSecret, server, clock, orders, order_items, user_addresses, nextId>>

NextReceipts ==
  \/ \E r \in Requests : CreateOrderConcurrent(r) \/ GatewayReturns(r)
  \/ Tick

SpecReceipts == Init /\ [][NextReceipts]_vars

\* checkout: gateway orders are created and orders are saved
NextCheckout ==
  \E r \in Requests :
    \/ CreateOrderConcurrent(r)
    \/ GatewayReturns(r)
    \/ SaveOrderSteps(r)

SpecCheckout == Init /\ [][NextCheckout]_vars

\* orders are saved while webhook notifications arrive
NextWebhook ==
  \E r \in Requests :
    \/ SaveOrderSteps(r)
    \/ Webhook(r)
    \/ WebhookUpdate(r)

SpecWebhook == Init /\ [][NextWebhook]_vars

\* payment events on stored orders: the store holds the order of a
\* save-order request that completed earlier, and verify-payment requests
\* and webhook notifications arrive
InitPayments ==
  /\ variant \in Variants
  /\ webhookSecret \in (IF HasWebhook(variant) THEN {Absent, WebhookSecretValue}
                        ELSE {Absent})
  /\ \E b \in SaveBodies :
       /\ HasSaveOrder(variant) => SaveValidation(variant, b) = NoResp
       /\ orders = IF HasSaveOrder(variant) THEN {OrderRow(variant, b, 1)} ELSE {}
       /\ order_items = IF WritesItems(variant) THEN OrderItems(variant, 1, b) ELSE {}
  /\ server = "configured"
  /\ user_addresses = {}
  /\ nextId = 2
  /\ gateway = {}
  /\ clock = 0
  /\ req = [r \in Requests |-> Idle]

NextPayments ==
  \E r \in Requests :
    \/ VerifyPayment(r)
    \/ UpdateOrder(r)
    \/ Webhook(r)
    \/ WebhookUpdate(r)

SpecPayments == InitPayments /\ [][NextPayments]_vars

\* orders are saved while orders are listed
NextRead ==
  \E r \in Requests :
    \/ SaveOrderSteps(r)
    \/ GetOrders(r)
    \/ SelectOrders(r)
    \/ CountOrders(r)

SpecRead == Init /\ [][NextRead]_vars

\* ================================================================ claims
Calls(r) == req[r].calls
Saves == {r \in Requests : req[r].kind = "save"}
Verifies == {r \in Requests : req[r].kind = "verify"}
Creates == {r \in Requests : req[r].kind = "create"}
Responded(r) == req[r].pc = "done"

HasCall(r, op, results) ==
  \E i \in DOMAIN Calls(r) : Calls(r)[i].op = op /\ Calls(r)[i].res \in results

OrderInsertFailed(r) == HasCall(r, "orders.insert", {"error", "throw"})
ItemsInsertError(r) == HasCall(r, "order_items.insert", {"error"})
ItemsInsertFailed(r) == HasCall(r, "order_items.insert", {"error", "throw"})
WroteNothing(r) == \A i \in DOMAIN Calls(r) : Calls(r)[i].wrote = 0
OrderExists(id) == \E o \in orders : o.id = id

\* C1: once a save-order request whose order_items insert failed has
\* answered, its order row is gone and the answer is a 500 carrying the
\* item-insertion error.  Stated for the handler of part_002.
C1_RollbackRemovesOrder ==
  variant = "p002" =>
    \A r \in Saves :
      Responded(r) /\ ItemsInsertFailed(r) =>
        /\ ~OrderExists(req[r].order)
        /\ req[r].resp = Resp(500, "items_insert")

\* C2: every order_items row references an orders row that exists.
C2_NoOrphanItems ==
  \A it \in order_items : OrderExists(it.order_id)

\* a rollback has deleted one request's order while another request's
\* items are in the table
C2_WitnessRollbackBesideItems ==
  \E r, q \in Saves :
    /\ r # q
    /\ \E i \in DOMAIN Calls(r) :
         Calls(r)[i] = Call("orders.delete", "ok", 1)
    /\ \E it \in order_items : it.order_id = req[q].order

\* C3: an order_items insert is issued only after the orders insert of the
\* same request has succeeded, and a request whose order_items insert
\* failed answers only after it has attempted the delete.
C3_CausalOrder ==
  \A r \in Saves :
    /\ \A i \in DOMAIN Calls(r) :
         Calls(r)[i].op = "order_items.insert" =>
           \E j \in 1..(i - 1) : Calls(r)[j] = Call("orders.insert", "ok", 1)
    /\ \A i \in DOMAIN Calls(r) :
         Responded(r) /\ Calls(r)[i].op = "order_items.insert"
                      /\ Calls(r)[i].res # "ok" =>
           \E j \in (i + 1)..Len(Calls(r)) : Calls(r)[j].op = "orders.delete"

\* C4: when the order_items insert returned an error and the compensating
\* delete failed as well (returned an error or threw), the answer is a 500
\* carrying the item-insertion error, not the delete's.
C4_OriginalErrorReported ==
  \A r \in Saves :
    Responded(r) /\ ItemsInsertError(r)
                 /\ HasCall(r, "orders.delete", {"error", "throw"}) =>
      req[r].resp = Resp(500, "items_insert")

\* C5: a failed orders insert is the last remote call of its request, which
\* answers 500 with the order-creation error and has written no row.
C5_OrderInsertFailureAborts ==
  \A r \in Saves :
    \A i \in DOMAIN Calls(r) :
      Calls(r)[i].op = "orders.insert" /\ Calls(r)[i].res # "ok" =>
        /\ i = Len(Calls(r))
        /\ Responded(r)
        /\ req[r].resp = Resp(500, "order_insert")
        /\ WroteNothing(r)

\* an orders insert has failed while the tables hold another request's
\* order and items
C5_WitnessFailedInsert ==
  \E r \in Saves :
    /\ OrderInsertFailed(r) /\ Responded(r)
    /\ orders # {} /\ order_items # {}

\* the payloads save-order has to refuse
TotalInvalid(b) ==
  \/ b.total_amount.kind \in {"undefined", "null"}
  \/ b.total_amount.kind # "number"
  \/ Le(b.total_amount.val, 0)

ShippingIncomplete(b) == ~b.shipping_info.present \/ MissingShipping(b) # {}

\* C6: a payload with no items array, no positive total_amount or an absent
\* required shipping field is answered 400 before any insert, and the answer
\* names every missing shipping field.  Stated for the service-role
\* handler of index.js.
C6_ValidationRejects ==
  variant = "idx3" =>
    \A r \in Saves :
      ItemsInvalid(req[r].body) \/ TotalInvalid(req[r].body)
                                \/ ShippingIncomplete(req[r].body) =>
        /\ Responded(r)
        /\ req[r].resp.status = 400
        /\ Calls(r) = <<>>
        /\ IF req[r].body.shipping_info.present
           THEN MissingShipping(req[r].body) \subseteq req[r].resp.fields
           ELSE "shipping_info" \in req[r].resp.fields

\* C7: a verify-payment request carrying its three fields is answered
\* success exactly when its signature is the HMAC-SHA256 of
\* order id | payment id under the key secret.
C7_SignatureDecides ==
  \A r \in Verifies :
    Responded(r) /\ ~VerifyMissing(req[r].body) =>
      (req[r].resp.status = 200
         <=> req[r].body.razorpay_signature = ExpectedSignature(req[r].body))

\* C8: a verify-payment request that is not answered success is answered
\* 400 and has changed no orders row.
C8_FailureIsClientError ==
  \A r \in Verifies :
    Responded(r) /\ req[r].resp.status # 200 =>
      req[r].resp.status = 400 /\ WroteNothing(r)

\* the gateway order a stored order was paid under: the razorpay_order_id of
\* the gateway payment payload that created the row
GatewayOrderOf(o) ==
  IF \E r \in Saves : req[r].order = o.id /\ req[r].body.payment_method = "razorpay"
  THEN req[CHOOSE r \in Saves : req[r].order = o.id].body.payment_details.razorpay_order_id
  ELSE NULL

VerifiedUpdate(r) ==
  /\ req[r].kind = "verify" /\ req[r].pc = "update" /\ req'[r].pc = "done"
  /\ req'[r].calls[Len(req'[r].calls)].res = "ok"

\* C9: when the update of a verified payment succeeds, every order paid
\* under that gateway order id is 'confirmed' and carries the payment id.
C9_VerifiedOrderConfirmed ==
  [][\A r \in Requests :
       VerifiedUpdate(r) =>
         \A o \in orders' :
           GatewayOrderOf(o) = req[r].body.razorpay_order_id =>
             /\ o.status = "confirmed"
             /\ o.payment_id = req[r].body.razorpay_payment_id]_vars

\* C10: a positive number or numeric string a reaches the gateway as
\* round(a * 100) in INR; any other amount is answered 400 and the gateway
\* is not called.  Stated for the handler of part_000.
C10_AmountNormalized ==
  variant = "p000" =>
    \A r \in Creates :
      LET a == req[r].body.amount
      IN IF a.kind \in {"number", "numstr"} /\ Gt(a.val, 0)
         THEN \E g \in gateway :
                /\ g.req = r /\ g.currency = "INR"
                /\ g.amount = MathRound(Times(a.val, 100))
         ELSE /\ Responded(r) /\ req[r].resp.status = 400
              /\ \A g \in gateway : g.req # r

\* C11: an amount a with round(a * 100) above 10,000,000 paise is answered
\* 400 and no gateway order-create is made for it.  Stated for the first
\* server of index.js.
C11_CeilingRejects ==
  variant = "idx1" =>
    \A r \in Creates :
      LET a == req[r].body.amount
      IN a.kind \in {"number", "numstr"} /\ Gt(MathRound(Times(a.val, 100)), MAX_PAISA) =>
           /\ Responded(r) /\ req[r].resp.status = 400
           /\ \A g \in gateway : g.req # r

\* the orders row a save-order request has stored
StoredBy(r) == {o \in orders : o.id = req[r].order}

\* C12: the row stored for a cash-on-delivery payload has payment_id null
\* and gateway order id null, whatever identifiers the payload carried.
\* Stated for the first server of index.js.
C12_CodHasNoPaymentIds ==
  variant = "idx1" =>
    \A r \in Saves :
      req[r].body.payment_method = "cod" =>
        \A o \in StoredBy(r) :
          o.payment_id = NULL /\ o.razorpay_order_id = NULL

\* the rows a step adds to orders
Created == {o \in orders' : \A p \in orders : p.id # o.id}

\* C13: a row created for a cash-on-delivery payload has status 'pending',
\* whatever status the payload carried.  Stated for the second server of
\* index.js.
C13_CodStartsPending ==
  [][variant = "idx2" =>
       \A o \in Created : o.payment_method = "cod" => o.status = "pending"]_vars

\* the gateway orders created so far: the order-create calls that succeeded
GatewayOrders ==
  {GatewayOrderId(r) : r \in {q \in Creates : HasCall(q, "razorpay.orders.create", {"ok"})}}

\* C14: a row created 'confirmed' for a gateway payment carries the id of a
\* gateway order that an earlier order-create call has created.  Stated for
\* the service-role server of index.js, whose rows carry the gateway order id.
C14_ConfirmedNeedsGatewayOrder ==
  [][variant = "idx3" =>
       \A o \in Created :
         o.payment_method # "cod" /\ o.status = "confirmed" =>
           o.razorpay_order_id \in GatewayOrders]_vars

Webhooks == {r \in Requests : req[r].kind = "webhook"}

\* the header is the digest of the text sent, under the webhook secret
WebhookSigned(b) == b.signature = Hmac(webhookSecret, RawText(b))

\* C15: a webhook request whose signature header is missing or is not the
\* HMAC-SHA256 of the raw request body under the webhook secret is answered
\* 400 and changes no orders row.
C15_WebhookSignatureChecked ==
  \A r \in Webhooks :
    Responded(r) /\ ~WebhookSigned(req[r].body) =>
      req[r].resp.status = 400 /\ WroteNothing(r)

\* a signed webhook request, whose text reads the same once re-serialised,
\* gets its answer in this step, no store call of its own having failed
WebhookCompletes(r) ==
  /\ req'[r].kind = "webhook" /\ req[r].pc # "done" /\ req'[r].pc = "done"
  /\ WebhookSigned(req'[r].body)
  /\ RawText(req'[r].body) = Stringify(Parse(req'[r].body))
  /\ ~HasCall(r, "orders.update", {"error", "throw"})'

\* C16: when a signed webhook request completes, a 'payment.captured' event
\* has left every order paid under its gateway order id 'confirmed', a
\* 'payment.failed' event has left it 'failed', and any other event is
\* answered 200 and has changed no order.  The events are those the gateway
\* sends: a payment event holds its payment entity, any other event holds
\* the payment and order entities.
C16_WebhookEventsApplied ==
  [][\A r \in Requests :
       WebhookCompletes(r) =>
         LET b == req'[r].body
         IN CASE b.event = "payment.captured" /\ b.payload \in {"payment", "full"} ->
                   \A o \in orders' : GatewayOrderOf(o) = b.oid => o.status = "confirmed"
              [] b.event = "payment.failed" /\ b.payload \in {"payment", "full"} ->
                   \A o \in orders' : GatewayOrderOf(o) = b.oid => o.status = "failed"
              [] b.event \notin {"payment.captured", "payment.failed"}
                   /\ b.payload = "full" ->
                   req'[r].resp = Resp(200, "") /\ orders' = orders
              [] OTHER -> TRUE]_vars

\* C17: a verify-payment request whose signature matched and whose orders
\* update failed (returned an error or threw) is answered success.
C17_UpdateFailureSwallowed ==
  \A r \in Verifies :
    Responded(r) /\ HasCall(r, "orders.update", {"error", "throw"}) =>
      req[r].resp = Resp(200, "")

\* the orders rows that have no order_items row, by id
WithoutItems ==
  {ToString(o.id) : o \in {p \in orders : ~\E it \in order_items : it.order_id = p.id}}

\* the orders of the save-order requests that have not answered yet
InFlight == {ToString(req[q].order) : q \in {s \in Saves : ~Responded(s)}}

\* C18: a listing shows an order without line items only while the
\* save-order request that inserted it has not completed, and once every
\* save-order request has completed no order is without line items.
\* Stated for the handlers of part_002.
C18_ItemlessOnlyInWindow ==
  [][variant = "p002" =>
       /\ \A r \in Requests :
            req[r].kind = "list" /\ req[r].pc = "list" /\ req'[r].pc = "done" =>
              req'[r].resp.fields \subseteq InFlight
       /\ (\A q \in Requests : req'[q].kind = "save" => req'[q].pc = "done") =>
            WithoutItems' = {}]_vars

\* C19: no two gateway order-create calls carry the same receipt.  Stated
\* for the second server of index.js.
C19_ReceiptsDiffer ==
  variant = "idx2" =>
    \A g, h \in gateway : g.req # h.req => g.receipt # h.receipt

\* the gateway calls request r has had an answer to
GatewayCalls(r) ==
  {i \in DOMAIN Calls(r) : Calls(r)[i].op = "razorpay.orders.create"}

\* C20: a create-order request makes at most one gateway order-create call,
\* and when that call fails the request has answered with an error.
C20_NoRetry ==
  \A r \in Creates :
    /\ Cardinality(GatewayCalls(r)) <= 1
    /\ Cardinality({g \in gateway : g.req = r}) <= 1
    /\ HasCall(r, "razorpay.orders.create", {"bad_request", "gateway_error", "network"}) =>
         /\ Responded(r)
         /\ req[r].resp.status \in {400, 500}
         /\ Calls(r)[Len(Calls(r))].res # "ok"

\* a gateway call has failed on the network while another request's call
\* has succeeded
C20_WitnessFailedCall ==
  \E r, q \in Creates :
    /\ HasCall(r, "razorpay.orders.create", {"network"}) /\ Responded(r)
    /\ HasCall(q, "razorpay.orders.create", {"ok"})

\* C22: a gateway failure classed as a bad request is answered with a 4xx
\* status carrying the gateway's error, every other gateway failure with a
\* 5xx status.  Stated for the second server of index.js.
C22_GatewayErrorsClassified ==
  variant = "idx2" =>
    \A r \in Creates :
      Responded(r) =>
        /\ HasCall(r, "razorpay.orders.create", {"bad_request"}) =>
             req[r].resp.status \in 400..499 /\ req[r].resp.error = "gateway"
        /\ HasCall(r, "razorpay.orders.create", {"gateway_error", "network"}) =>
             req[r].resp.status \in 500..599

\* C24: every orders row has a status among pending, confirmed and failed.
\* Stated for the second server of index.js.
C24_StatusInDomain ==
  variant = "idx2" =>
    \A o \in orders : o.status \in {"pending", "confirmed", "failed"}

Lists == {r \in Requests : req[r].kind = "list"}

\* C23: a listing asked without user_id returns no row (it is refused), and
\* every row a listing returns has the user_id asked for.  Stated for the
\* handler of part_002.
C23_ListingNeedsUser ==
  variant = "p002" =>
    \A r \in Lists :
      /\ req[r].body.user_id = Absent => req[r].body.rows = {}
      /\ \A o \in req[r].body.rows : o.user_id = req[r].body.user_id

\* a quantity that is a positive integer, as a number or a numeric string
PositiveInteger(q) ==
  q.kind \in {"number", "numstr"} /\ ~q.val.nan /\ q.val.f = 0 /\ q.val.i >= 1

\* C25: an order_items row stores the quantity of its item when that is a
\* positive integer, and 1 otherwise.  Stated for the first server of
\* index.js.
C25_QuantityPositive ==
  variant = "idx1" =>
    \A r \in Saves :
      \A it \in order_items :
        it.order_id = req[r].order =>
          LET q == req[r].body.items.list[it.line].quantity
          IN it.quantity = IF PositiveInteger(q) THEN Js("number", q.val) ELSE One

\* the order_items insert of request r returns in this step
ItemsInsertReturns(r) ==
  req[r].kind = "save" /\ req[r].pc = "items" /\ req'[r].pc # "items"

\* C26: the rows an order_items insert adds reference the order that the
\* same request inserted, which is no other request's order, and are as
\* many as the payload has items (none when the insert fails).
C26_ItemsBoundToOwnOrder ==
  [][\A r \in Requests :
       ItemsInsertReturns(r) =>
         /\ \A it \in order_items' \ order_items : it.order_id = req[r].order
         /\ HasCall(r, "orders.insert", {"ok"})
         /\ \A q \in Requests \ {r} : req[q].order # req[r].order
         /\ Cardinality(order_items' \ order_items) =
              IF req'[r].calls[Len(req'[r].calls)].res = "ok"
              THEN Len(req[r].body.items.list) ELSE 0]_vars

\* the order_items rows of the order of request r
ItemsOf(r) == {it \in order_items : it.order_id = req[r].order}

\* two requests have each stored their items, one of them MaxItems rows
C26_WitnessTwoOrdersWithItems ==
  \E r, q \in Saves :
    /\ r # q
    /\ Cardinality(ItemsOf(r)) = MaxItems
    /\ ItemsOf(q) # {}
    /\ Cardinality(ItemsOf(q)) = Len(req[q].body.items.list)

\* C27: the rollback delete of a request removes no orders row but the one
\* the request inserted, adds none, and leaves order_items and
\* user_addresses as they were.
C27_RollbackTouchesOwnOrder ==
  [][\A r \in Requests :
       req[r].kind = "save" /\ req[r].pc = "rollback" /\ req'[r].pc = "done" =>
         /\ orders' \subseteq orders
         /\ \A o \in orders \ orders' : o.id = req[r].order
         /\ order_items' = order_items
         /\ user_addresses' = user_addresses]_vars

\* a rollback has deleted its order while another order and items remain
C27_WitnessRollbackKeepsOthers ==
  /\ \E r \in Saves : \E i \in DOMAIN Calls(r) : Calls(r)[i] = Call("orders.delete", "ok", 1)
  /\ orders # {}
  /\ order_items # {}

\* C28: the orders update of a verify-payment request leaves every
\* cash-on-delivery row as it was.  Stated for the first server of index.js.
C28_VerifyLeavesCodOrders ==
  [][variant = "idx1" =>
       \A r \in Requests :
         req[r].kind = "verify" /\ req[r].pc = "update" /\ req'[r].pc = "done" =>
           \A o \in orders : o.payment_method = "cod" => o \in orders']_vars

\* the gateway order id and payment id a payment event names
EventOrderId(r) ==
  IF req[r].kind = "verify" THEN req[r].body.razorpay_order_id ELSE req[r].body.oid
EventPaymentId(r) ==
  IF req[r].kind = "verify" THEN req[r].body.razorpay_payment_id ELSE req[r].body.pid

\* request q is a verify-payment or a 'payment.captured' notification whose
\* update succeeded on at least one row, and o carries its payment id
ConfirmedBy(o, q) ==
  /\ \/ req[q].kind = "verify"
     \/ req[q].kind = "webhook" /\ req[q].body.event = "payment.captured"
  /\ req[q].pc = "done"
  /\ \E i \in DOMAIN Calls(q) :
       Calls(q)[i].op = "orders.update" /\ Calls(q)[i].res = "ok" /\ Calls(q)[i].wrote > 0
  /\ o.status = "confirmed"
  /\ o.payment_id = EventPaymentId(q)

\* the orders update of a verify-payment or webhook request returns
PaymentUpdate(r) ==
  /\ req[r].kind \in {"verify", "webhook"}
  /\ req[r].pc \in {"update", "hook_update"}
  /\ req'[r].pc = "done"

\* C29: an order confirmed by a successful verify-payment or by a
\* 'payment.captured' notification is not set to 'failed' or 'pending' by
\* the update of a later request that names the same gateway order id.
C29_ConfirmedStays ==
  [][\A r \in Requests :
       PaymentUpdate(r) =>
         \A o \in orders :
           (\E q \in Requests \ {r} :
              ConfirmedBy(o, q) /\ EventOrderId(q) = EventOrderId(r)) =>
             \A n \in orders' : n.id = o.id => n.status \notin {"failed", "pending"}]_vars

\* an order was confirmed by one request, and a 'payment.failed'
\* notification for the same gateway order id has since been applied
\* without changing it
C29_WitnessFailedAfterConfirmed ==
  \E q, r \in Requests :
    /\ q # r
    /\ \E o \in orders : ConfirmedBy(o, q)
    /\ req[r].kind = "webhook" /\ req[r].body.event = "payment.failed"
    /\ req[r].pc = "done"
    /\ HasCall(r, "orders.update", {"ok"})
    /\ EventOrderId(q) = EventOrderId(r)

\* C30: every save-order request is answered in the end (from some point
\* on every request that has arrived has its answer), and an answer once
\* sent is the only one: it does not change and the handler takes no
\* further step.
C30_OneResponse ==
  /\ <>[](\A r \in Requests :
            req[r].kind = "save" => req[r].resp.status # 0 /\ req[r].pc = "done")
  /\ [][\A r \in Requests :
          req[r].resp.status # 0 => req'[r] = req[r]]_vars

\* one request was answered after its rollback, another after its address
\* insert failed
C30_WitnessAnsweredOnFailurePaths ==
  \E q, r \in Saves :
    /\ Responded(q) /\ req[q].resp.status = 500
    /\ HasCall(q, "orders.delete", Outcomes)
    /\ Responded(r) /\ req[r].resp.status = 200
    /\ HasCall(r, "user_addresses.insert", {"error", "throw"})

\* C21: on a server running without gateway credentials, a create-order
\* request with an acceptable amount is answered 500 and makes no call to
\* razorpay.orders.create.  Stated for the first server of index.js.
C21_MissingCredentialsStopCall ==
  variant = "idx1" /\ server = "unconfigured" =>
    \A r \in Creates :
      NormalizeAmount(variant, req[r].body.amount).ok =>
        /\ \A g \in gateway : g.req # r
        /\ Responded(r) => req[r].resp.status = 500

====
